---- MODULE Spec2Model ----
(***************************************************************************)
(* FTPDataExchange: breadth-first walks of a remote (FTPS) and a local     *)
(* directory tree and the two mirror engines built on them.                *)
(*                                                                         *)
(* Strings are sequences of one-character strings, so that str.replace,    *)
(* str.split, os.path.join and os.path.basename are computed character by  *)
(* character as Python computes them.                                      *)
(***************************************************************************)
EXTENDS Integers, Sequences, FiniteSets, TLC

\* ------------------------------------------------------------------ bounds
\* number of consecutive calls of the same operation on one object
MaxRuns == 2
\* deepest directory level of the source tree (the root /s is level 1)
MaxDepth == 3

\* ------------------------------------------------------- string primitives
SEP == "/"
DOT == "."

\* str.rfind(c) + 1 : 1-based index of the last occurrence of c, 0 when absent
LastIndex(s, c) ==
    LET hits == {i \in 1..Len(s) : s[i] = c}
    IN  IF hits = {} THEN 0 ELSE CHOOSE i \in hits : \A j \in hits : j <= i

\* str.startswith(c) for a one-character c
startswith(s, c) == Len(s) > 0 /\ s[1] = c

\* s[i:] begins with old
MatchAt(s, old, i) ==
    /\ i + Len(old) - 1 <= Len(s)
    /\ SubSeq(s, i, i + Len(old) - 1) = old

RECURSIVE ReplaceFrom(_, _, _, _)
ReplaceFrom(s, old, new, i) ==
    IF i > Len(s) THEN << >>
    ELSE IF MatchAt(s, old, i)
         THEN new \o ReplaceFrom(s, old, new, i + Len(old))
         ELSE << s[i] >> \o ReplaceFrom(s, old, new, i + 1)

RECURSIVE Interleave(_, _, _)
Interleave(s, new, i) ==
    IF i > Len(s) THEN new
    ELSE new \o << s[i] >> \o Interleave(s, new, i + 1)

\* str.replace(old, new): every non-overlapping occurrence, left to right
replace(s, old, new) ==
    IF old = << >> THEN Interleave(s, new, 1) ELSE ReplaceFrom(s, old, new, 1)

\* s.split('.')[-1]
SplitLast(s) == SubSeq(s, LastIndex(s, DOT) + 1, Len(s))

\* os.path.join(a, b) on POSIX
pjoin(a, b) ==
    IF startswith(b, SEP) THEN b
    ELSE IF a = << >> \/ a[Len(a)] = SEP THEN a \o b
    ELSE a \o << SEP >> \o b

\* os.path.basename(p) on POSIX
basename(p) == SubSeq(p, LastIndex(p, SEP) + 1, Len(p))

\* the directory an absolute, normalised path lies in ("/" is its own parent)
Dirname(p) ==
    LET i == LastIndex(p, SEP)
    IN  IF i <= 1 THEN SubSeq(p, 1, i) ELSE SubSeq(p, 1, i - 1)

\* every proper ancestor of an absolute, normalised path
Ancestors(p) ==
    {<< SEP >>} \cup {SubSeq(p, 1, i - 1) : i \in {j \in 2..Len(p) : p[j] = SEP}}

\* ------------------------------------------------------------ file systems
\* a file system is [dirs : set of paths, files : path -> content]

Exists(fs, p) == p \in fs.dirs \/ p \in DOMAIN fs.files

ChildDirs(fs, d) == {p \in fs.dirs : p # << SEP >> /\ Dirname(p) = d}
ChildFiles(fs, d) == {p \in DOMAIN fs.files : Dirname(p) = d}

\* FTP_TLS.mlsd() of directory d: (name, facts) pairs
mlsd(fs, d) ==
    {[name |-> basename(p), type |-> "dir"] : p \in ChildDirs(fs, d)}
    \cup {[name |-> basename(p), type |-> "file"] : p \in ChildFiles(fs, d)}

\* os.listdir(d)
listdir(fs, d) == {basename(p) : p \in ChildDirs(fs, d) \cup ChildFiles(fs, d)}

\* os.makedirs(p, exist_ok=True)
makedirs(fs, p) == [fs EXCEPT !.dirs = @ \cup {p} \cup Ancestors(p)]

\* writing content c to path p (open(p, 'wb').write, or STOR)
WriteFile(fs, p, c) == [fs EXCEPT !.files = (p :> c) @@ @]

\* ---------------------------------------------------- the trees considered
\* entry names
n_s  == << "s" >>
n_a  == << "a" >>
n_x  == << "x" >>
n_bc == << "b", ".", "c" >>
n_g  == << ".", "g" >>
n_dc == << "d", ".", "c" >>
n_rt == << "r", ".", "t" >>
n_h  == << ".", "h" >>
n_n  == << "n" >>

RECURSIVE PathOf(_)
PathOf(names) ==
    IF names = << >> THEN << SEP >>
    ELSE PathOf(SubSeq(names, 1, Len(names) - 1)) \o
         (IF Len(names) = 1 THEN << >> ELSE << SEP >>) \o names[Len(names)]

Depth(p) == Cardinality({i \in 1..Len(p) : p[i] = SEP})

SrcTop == PathOf(<< n_s >>)
DstTop == PathOf(<< n_x >>)

\* directories the source tree may hold below /s; "s" repeats the root's own
\* name, ".g" is hidden, "b.c" has a dot in a directory name
SrcOptionalDirs ==
    {p \in { PathOf(<< n_s, n_a >>), PathOf(<< n_s, n_a, n_bc >>),
             PathOf(<< n_s, n_a, n_bc, n_a >>),
             PathOf(<< n_s, n_s >>),
             PathOf(<< n_s, n_g >>), PathOf(<< n_s, n_g, n_a >>) } :
        Depth(p) <= MaxDepth}

\* files of the source tree: each exists when its directory does
SrcFileUniverse ==
    { PathOf(<< n_s, n_dc >>), PathOf(<< n_s, n_rt >>),
      PathOf(<< n_s, n_a, n_h >>), PathOf(<< n_s, n_a, n_dc >>),
      PathOf(<< n_s, n_a, n_bc, n_n >>),
      PathOf(<< n_s, n_g, n_a, n_dc >>) }

\* what the destination may hold before the first call
DstOptionalDirs == { PathOf(<< n_x, n_s >>), PathOf(<< n_x, n_s, n_a >>) }
DstFileUniverse == { PathOf(<< n_x, n_s, n_dc >>), PathOf(<< n_x, n_s, n_a, n_dc >>) }

ParentClosed(top, ds) == \A p \in ds : Dirname(p) \in ds \cup {top}

SourceTrees == {ds \in SUBSET SrcOptionalDirs : ParentClosed(SrcTop, ds)}
DestTrees   == {ds \in SUBSET DstOptionalDirs : ParentClosed(DstTop, ds)}

\* content of a source file: its own path; of a file already at the destination
OldContent == << "o" >>
\* content of a file opened for writing whose transfer failed
Truncated == << >>

SourceFS(ds) ==
    LET dirs  == {<< SEP >>, SrcTop} \cup ds
        files == {f \in SrcFileUniverse : Dirname(f) \in dirs}
    IN  [dirs |-> dirs, files |-> [f \in files |-> f]]

DestFS(ds) ==
    LET dirs  == {<< SEP >>, DstTop} \cup ds
        files == {f \in DstFileUniverse : Dirname(f) \in dirs}
    IN  [dirs |-> dirs, files |-> [f \in files |-> OldContent]]

SourceRoots == {SrcTop, PathOf(<< n_s, n_a >>)}
\* no restriction, or the extensions "c" and "n"
Restrictions == {{}, {<< "c" >>, << "n" >>}}

\* ------------------------------------------------------------------- state
VARIABLES
    remote,         \* the server's file system
    local,          \* the local file system
    ftp,            \* self.ftp : [open, cwd]
    connects,       \* number of sessions connect_to_remote has opened
    os_cwd,         \* the process's working directory (os.chdir)
    args,           \* the call's arguments as passed
    roots,          \* local_root_directory / remote_root_directory as rebound
    pc,             \* idle | walk | visit | files | done | aborted
    run,            \* number of the call in progress
    error,          \* the exception that ended the call
    wpc,            \* walker position: seed (after yielding the root) | for
    queue,          \* the walker's queue
    current_directory,
    walklist,       \* entries the walker's for loop has not reached yet
    directory_in_tree,   \* the directory just yielded
    directory_copy,      \* local_directory_copy / remote_directory_copy
    filelist,       \* entries the mirror's for loop has not reached yet
    remote_filelist,
    yielded,        \* history: the directories yielded in this call, in order
    mapLog,         \* history: (source directory, destination directory used)
    retrLog,        \* history: RETR commands
    storLog,        \* history: STOR commands
    mkdLog,         \* history: MKD commands
    listLog,        \* history: the listing consulted for each local directory
    decisions,      \* history: one record per file the mirror considered
    dest0,          \* history: the destination before the first call
    snaps           \* history: the destination after each completed call

fsVars   == << remote, local >>
sessVars == << ftp, connects, os_cwd >>
callVars == << args, roots, run, error >>
walkVars == << wpc, queue, current_directory, walklist >>
loopVars == << directory_in_tree, directory_copy, filelist, remote_filelist >>
logVars  == << yielded, mapLog, retrLog, storLog, mkdLog, listLog, decisions,
               dest0, snaps >>
vars == << fsVars, sessVars, callVars, walkVars, loopVars, logVars, pc >>

NoPath == << >>

\* the destination side of the call
Dest == IF args.op = "r2l" THEN local ELSE remote

\* __init__ has run: one session is open, in the login directory
Init ==
    \E o \in {"r2l", "l2r", "put"}, tree \in SourceTrees, pre \in DestTrees,
       ow \in BOOLEAN, dry \in BOOLEAN, restr \in Restrictions,
       root \in SourceRoots :
        /\ root \in SourceFS(tree).dirs
        /\ o = "put" => (~ow /\ ~dry /\ restr = {} /\ root = SrcTop)
        /\ remote = IF o = "r2l" THEN SourceFS(tree) ELSE DestFS(pre)
        /\ local  = IF o = "r2l" THEN DestFS(pre) ELSE SourceFS(tree)
        /\ ftp = [open |-> TRUE, cwd |-> << SEP >>]
        /\ connects = 1
        /\ os_cwd = << SEP >>
        /\ args = [op |-> o,
                   local_root_directory  |-> IF o = "r2l" THEN DstTop ELSE root,
                   remote_root_directory |-> IF o = "r2l" THEN root ELSE DstTop,
                   overwrite |-> ow, dry_run |-> dry,
                   filetype_restrictions |-> restr,
                   local_file_path |-> PathOf(<< n_s, n_a, n_dc >>),
                   target_remote_directory |-> PathOf(<< n_x, n_s >>)]
        /\ roots = [local |-> NoPath, remote |-> NoPath]
        /\ pc = "idle"
        /\ run = 1
        /\ error = "none"
        /\ wpc = "seed"
        /\ queue = << >>
        /\ current_directory = NoPath
        /\ walklist = {}
        /\ directory_in_tree = NoPath
        /\ directory_copy = NoPath
        /\ filelist = {}
        /\ remote_filelist = {}
        /\ yielded = << >>
        /\ mapLog = {}
        /\ retrLog = {}
        /\ storLog = {}
        /\ mkdLog = {}
        /\ listLog = {}
        /\ decisions = {}
        /\ dest0 = DestFS(pre)
        /\ snaps = << >>

\* ---------------------------------------------------------- decision points
\* a walker without the hidden-entry test
IsHiddenNever(name) == FALSE

\* f[0].startswith('.')
IsHidden(name) == startswith(name, DOT)

\* an existence test that forgets the overwrite flag
SkipIfExists(overwrite, exists) == exists

\* a mirror that never looks at the existing file
SkipNever(overwrite, exists) == FALSE

\* not overwrite_local_file and os.path.exists(local_file_copy)
SkipExisting(overwrite, exists) == ~overwrite /\ exists

\* a filter that lets every file through
PermittedAll(x, restrictions) == TRUE

\* x.split('.')[-1] in filetype_restrictions or len(filetype_restrictions) == 0
Permitted(x, restrictions) == SplitLast(x) \in restrictions \/ restrictions = {}

\* a dry run that is not honoured
MutatesAlways(dry_run) == TRUE

\* if not dry_run: (os.makedirs, retrbinary, mkd)
Mutates(dry_run) == ~dry_run

\* the path mapping of both mirrors: str.replace of the source root
MapPath(path, source_root, destination_root) ==
    replace(path, source_root, destination_root)

\* what the remote-to-local loop body does with entry f of the listing
R2LVerdict(f, target) ==
    IF IsHidden(f.name) THEN "hidden"
    ELSE IF f.type # "file" THEN "notfile"
    ELSE IF SkipExisting(args.overwrite, Exists(local, target)) THEN "exists"
    ELSE IF ~Permitted(target, args.filetype_restrictions) THEN "filtered"
    ELSE IF ~Mutates(args.dry_run) THEN "dry"
    ELSE "retr"

\* what the local-to-remote loop body does with local file name f
L2RVerdict(f) ==
    IF f \notin remote_filelist THEN "absent"
    ELSE IF ~Permitted(f, args.filetype_restrictions) THEN "filtered"
    ELSE IF ~args.overwrite THEN "keep"
    ELSE IF args.dry_run THEN "dry"
    ELSE "stor"

\* ------------------------------------------------------------ control flow
Running == pc \in {"walk", "visit", "files"}

\* an exception leaves the call
Raise(kind) == pc' = "aborted" /\ error' = kind

\* the walker's generator is exhausted: the mirror's for loop ends, the call returns
Return == pc' = "done" /\ snaps' = Append(snaps, Dest)

\* a walker that yields a directory without queueing it
EnqueueDropped(q, d) == q

\* queue.append(directory_in_tree)
Enqueue(q, d) == Append(q, d)

\* the walker hands directory d to the mirror's loop body
Yield(d) ==
    /\ directory_in_tree' = d
    /\ yielded' = Append(yielded, d)
    /\ pc' = "visit"

\* the mirror's for loop over the listing: on to the next entry, or back to the walker
AfterEntry(rest) == IF rest = {} THEN "walk" ELSE "files"

\* ------------------------------------------------------- remote -> local
\* the call: rebinds local_root_directory and pulls the first directory
recursively_copy_files_from_remote_directory ==
    /\ pc = "idle" /\ args.op = "r2l"
    /\ roots' = [local  |-> pjoin(args.local_root_directory,
                                  basename(args.remote_root_directory)),
                 remote |-> args.remote_root_directory]
    /\ Yield(args.remote_root_directory)
    /\ wpc' = "seed" /\ queue' = << >> /\ walklist' = {}
    /\ current_directory' = NoPath
    /\ UNCHANGED << fsVars, sessVars, args, run, error, directory_copy,
                    filelist, remote_filelist, mapLog, retrLog, storLog,
                    mkdLog, listLog, decisions, dest0, snaps >>

\* while queue: pop(0), cwd, mlsd
walk_remote_tree_dequeue ==
    /\ pc = "walk" /\ args.op = "r2l"
    /\ wpc = "seed" \/ walklist = {}
    /\ LET q == IF wpc = "seed" THEN << roots.remote >> ELSE queue
       IN  /\ q # << >>
           /\ current_directory' = Head(q)
           /\ queue' = Tail(q)
           /\ IF Head(q) \in remote.dirs
              THEN /\ ftp' = [ftp EXCEPT !.cwd = Head(q)]
                   /\ walklist' = mlsd(remote, Head(q))
                   /\ wpc' = "for"
                   /\ UNCHANGED << pc, error >>
              ELSE /\ Raise("error_perm")
                   /\ UNCHANGED << ftp, walklist, wpc >>
    /\ UNCHANGED << fsVars, connects, os_cwd, args, roots, run, loopVars, logVars >>

\* for f in filelist: skip hidden entries, queue and yield directories
walk_remote_tree_entry ==
    /\ pc = "walk" /\ args.op = "r2l"
    /\ wpc = "for"
    /\ \E f \in walklist :
        /\ walklist' = walklist \ {f}
        /\ IF ~IsHidden(f.name) /\ f.type = "dir"
           THEN /\ queue' = Enqueue(queue, pjoin(current_directory, f.name))
                /\ Yield(pjoin(current_directory, f.name))
           ELSE UNCHANGED << queue, directory_in_tree, yielded, pc >>
    /\ UNCHANGED << fsVars, sessVars, callVars, wpc, current_directory,
                    directory_copy, filelist, remote_filelist, mapLog, retrLog,
                    storLog, mkdLog, listLog, decisions, dest0, snaps >>

\* the queue is empty: the generator ends
walk_remote_tree_return ==
    /\ pc = "walk" /\ args.op = "r2l"
    /\ wpc = "for" /\ walklist = {} /\ queue = << >>
    /\ Return
    /\ UNCHANGED << fsVars, sessVars, callVars, walkVars, loopVars, yielded,
                    mapLog, retrLog, storLog, mkdLog, listLog, decisions, dest0 >>

\* loop body, first half: map the directory, make it, cwd into it, list it
copy_from_remote_directory ==
    /\ pc = "visit" /\ args.op = "r2l"
    /\ LET copy == MapPath(directory_in_tree, roots.remote, roots.local)
           blocked == \E q \in {copy} \cup Ancestors(copy) : q \in DOMAIN local.files
       IN  /\ directory_copy' = copy
           /\ mapLog' = mapLog \cup {[run |-> run, dir |-> directory_in_tree, copy |-> copy]}
           /\ IF Mutates(args.dry_run) /\ blocked
              THEN /\ Raise("FileExistsError")
                   /\ UNCHANGED << local, ftp, filelist >>
              ELSE /\ local' = IF Mutates(args.dry_run) THEN makedirs(local, copy) ELSE local
                   /\ IF directory_in_tree \in remote.dirs
                      THEN /\ ftp' = [ftp EXCEPT !.cwd = directory_in_tree]
                           /\ filelist' = mlsd(remote, directory_in_tree)
                           /\ pc' = AfterEntry(mlsd(remote, directory_in_tree))
                           /\ UNCHANGED error
                      ELSE /\ Raise("error_perm")
                           /\ UNCHANGED << ftp, filelist >>
    /\ UNCHANGED << remote, connects, os_cwd, args, roots, run, walkVars,
                    directory_in_tree, remote_filelist, yielded, retrLog,
                    storLog, mkdLog, listLog, decisions, dest0, snaps >>

\* loop body, second half: one entry of the listing
copy_from_remote_file ==
    /\ pc = "files" /\ args.op = "r2l"
    /\ \E f \in filelist, received \in BOOLEAN :
        LET target  == pjoin(directory_copy, f.name)
            verdict == R2LVerdict(f, target)
            source  == pjoin(ftp.cwd, f.name)
        IN  /\ filelist' = filelist \ {f}
            /\ decisions' = IF verdict \in {"hidden", "notfile"} THEN decisions
                            ELSE decisions \cup
                                 {[run |-> run, dir |-> directory_in_tree,
                                   name |-> f.name, target |-> target,
                                   existed |-> Exists(local, target),
                                   before |-> IF target \in DOMAIN local.files
                                              THEN << local.files[target] >> ELSE << >>,
                                   verdict |-> verdict]}
            /\ IF verdict # "retr"
               THEN /\ received
                    /\ pc' = AfterEntry(filelist \ {f})
                    /\ UNCHANGED << local, retrLog, error >>
               ELSE IF target \in local.dirs \/ Dirname(target) \notin local.dirs
               THEN /\ received
                    /\ Raise("OSError")
                    /\ UNCHANGED << local, retrLog >>
               ELSE /\ retrLog' = retrLog \cup
                                  {[run |-> run, cwd |-> ftp.cwd, name |-> f.name,
                                    target |-> target]}
                    /\ IF received /\ source \in DOMAIN remote.files
                       THEN /\ local' = WriteFile(local, target, remote.files[source])
                            /\ pc' = AfterEntry(filelist \ {f})
                            /\ UNCHANGED error
                       ELSE /\ local' = WriteFile(local, target, Truncated)
                            /\ Raise("transport")
    /\ UNCHANGED << remote, sessVars, args, roots, run, walkVars,
                    directory_in_tree, directory_copy, remote_filelist, yielded,
                    mapLog, storLog, mkdLog, listLog, dest0, snaps >>

\* ------------------------------------------------------- local -> remote
\* the call: rebinds remote_root_directory and pulls the first directory
recursively_copy_files_from_local_directory ==
    /\ pc = "idle" /\ args.op = "l2r"
    /\ roots' = [remote |-> pjoin(args.remote_root_directory,
                                  basename(args.local_root_directory)),
                 local  |-> args.local_root_directory]
    /\ Yield(args.local_root_directory)
    /\ wpc' = "seed" /\ queue' = << >> /\ walklist' = {}
    /\ current_directory' = NoPath
    /\ UNCHANGED << fsVars, sessVars, args, run, error, directory_copy,
                    filelist, remote_filelist, mapLog, retrLog, storLog,
                    mkdLog, listLog, decisions, dest0, snaps >>

\* while queue: pop(0), os.chdir, the names in os.listdir that are directories
walk_local_tree_dequeue ==
    /\ pc = "walk" /\ args.op = "l2r"
    /\ wpc = "seed" \/ walklist = {}
    /\ LET q == IF wpc = "seed" THEN << roots.local >> ELSE queue
       IN  /\ q # << >>
           /\ current_directory' = Head(q)
           /\ queue' = Tail(q)
           /\ IF Head(q) \in local.dirs
              THEN /\ os_cwd' = Head(q)
                   /\ walklist' = {i \in listdir(local, Head(q)) :
                                      pjoin(Head(q), i) \in local.dirs}
                   /\ wpc' = "for"
                   /\ UNCHANGED << pc, error >>
              ELSE /\ Raise("OSError")
                   /\ UNCHANGED << os_cwd, walklist, wpc >>
    /\ UNCHANGED << fsVars, ftp, connects, args, roots, run, loopVars, logVars >>

\* for d in directory_list: queue and yield, hidden or not
walk_local_tree_entry ==
    /\ pc = "walk" /\ args.op = "l2r"
    /\ wpc = "for"
    /\ \E d \in walklist :
        /\ walklist' = walklist \ {d}
        /\ queue' = Enqueue(queue, pjoin(current_directory, d))
        /\ Yield(pjoin(current_directory, d))
    /\ UNCHANGED << fsVars, sessVars, callVars, wpc, current_directory,
                    directory_copy, filelist, remote_filelist, mapLog, retrLog,
                    storLog, mkdLog, listLog, decisions, dest0, snaps >>

\* the queue is empty: the generator ends
walk_local_tree_return ==
    /\ pc = "walk" /\ args.op = "l2r"
    /\ wpc = "for" /\ walklist = {} /\ queue = << >>
    /\ Return
    /\ UNCHANGED << fsVars, sessVars, callVars, walkVars, loopVars, yielded,
                    mapLog, retrLog, storLog, mkdLog, listLog, decisions, dest0 >>

\* MKD succeeds when the parent exists and the name is free
MkdAccepted(fs, p) == Dirname(p) \in fs.dirs /\ ~Exists(fs, p)

\* loop body, first half: map the directory, cwd into it or make it, list both sides
copy_from_local_directory ==
    /\ pc = "visit" /\ args.op = "l2r"
    /\ LET copy  == MapPath(directory_in_tree, roots.local, roots.remote)
           found == copy \in remote.dirs
           files == {i \in listdir(local, directory_in_tree) :
                        pjoin(directory_in_tree, i) \in DOMAIN local.files}
           Listing(fs, cwd) ==
               /\ filelist' = files
               /\ remote_filelist' = {ri.name : ri \in {e \in mlsd(fs, cwd) : e.type = "file"}}
               /\ listLog' = listLog \cup
                             {[run |-> run, dir |-> directory_in_tree, copy |-> copy,
                               listed |-> cwd, created |-> ~found]}
               /\ pc' = AfterEntry(files)
               /\ UNCHANGED error
       IN  /\ directory_copy' = copy
           /\ mapLog' = mapLog \cup {[run |-> run, dir |-> directory_in_tree, copy |-> copy]}
           /\ IF found
              THEN /\ ftp' = [ftp EXCEPT !.cwd = copy]
                   /\ Listing(remote, copy)
                   /\ UNCHANGED << remote, mkdLog >>
              ELSE IF ~Mutates(args.dry_run)
              THEN /\ Raise("NotImplementedError")
                   /\ UNCHANGED << remote, ftp, mkdLog, filelist, remote_filelist, listLog >>
              ELSE /\ mkdLog' = mkdLog \cup {[run |-> run, path |-> copy]}
                   /\ IF MkdAccepted(remote, copy)
                      THEN /\ remote' = [remote EXCEPT !.dirs = @ \cup {copy}]
                           /\ Listing(remote', ftp.cwd)
                           /\ UNCHANGED ftp
                      ELSE /\ Raise("error_perm")
                           /\ UNCHANGED << remote, ftp, filelist, remote_filelist, listLog >>
    /\ UNCHANGED << local, connects, os_cwd, args, roots, run, walkVars,
                    directory_in_tree, yielded, retrLog, storLog, decisions,
                    dest0, snaps >>

\* loop body, second half: one local file
copy_from_local_file ==
    /\ pc = "files" /\ args.op = "l2r"
    /\ \E f \in filelist, sent \in BOOLEAN :
        LET verdict == L2RVerdict(f)
            source  == pjoin(directory_in_tree, f)
        IN  /\ filelist' = filelist \ {f}
            /\ decisions' = decisions \cup
                            {[run |-> run, dir |-> directory_in_tree, name |-> f,
                              copy |-> directory_copy, cwd |-> ftp.cwd,
                              present |-> pjoin(directory_copy, f) \in DOMAIN remote.files,
                              verdict |-> verdict]}
            /\ IF verdict # "stor"
               THEN /\ sent
                    /\ pc' = AfterEntry(filelist \ {f})
                    /\ UNCHANGED << remote, storLog, error >>
               ELSE /\ storLog' = storLog \cup
                                  {[run |-> run, cwd |-> ftp.cwd, name |-> f,
                                    dir |-> directory_in_tree, copy |-> directory_copy]}
                    /\ IF sent
                       THEN /\ remote' = WriteFile(remote, pjoin(ftp.cwd, f), local.files[source])
                            /\ pc' = AfterEntry(filelist \ {f})
                            /\ UNCHANGED error
                       ELSE /\ Raise("transport")
                            /\ UNCHANGED remote
    /\ UNCHANGED << local, sessVars, args, roots, run, walkVars,
                    directory_in_tree, directory_copy, remote_filelist, yielded,
                    mapLog, retrLog, mkdLog, listLog, dest0, snaps >>

\* ------------------------------------------------------ single-file upload
\* cwd to the target, STOR the file under its base name; failures are printed
copy_file_to_remote_directory ==
    /\ pc = "idle" /\ args.op = "put"
    /\ LET file_name == basename(args.local_file_path)
           target    == args.target_remote_directory
       IN  IF target \notin remote.dirs
           THEN UNCHANGED << ftp, remote, storLog >>
           ELSE /\ ftp' = [ftp EXCEPT !.cwd = target]
                /\ IF args.local_file_path \in DOMAIN local.files
                   THEN /\ remote' = WriteFile(remote, pjoin(target, file_name),
                                               local.files[args.local_file_path])
                        /\ storLog' = storLog \cup
                                      {[run |-> run, cwd |-> target, name |-> file_name,
                                        dir |-> Dirname(args.local_file_path),
                                        copy |-> target]}
                   ELSE UNCHANGED << remote, storLog >>
    /\ pc' = "done"
    /\ snaps' = Append(snaps, remote')
    /\ UNCHANGED << local, connects, os_cwd, callVars, walkVars, loopVars,
                    yielded, mapLog, retrLog, mkdLog, listLog, decisions, dest0 >>

\* ------------------------------------------------------------- environment
\* any FTP command of a running mirror may fail: the exception propagates
TransportFailure ==
    /\ Running
    /\ Raise("transport")
    /\ UNCHANGED << fsVars, sessVars, args, roots, run, walkVars, loopVars, logVars >>

\* the caller invokes the same operation again on the same object
CallAgain ==
    /\ pc = "done"
    /\ run < MaxRuns
    /\ pc' = "idle"
    /\ run' = run + 1
    /\ yielded' = << >>
    /\ UNCHANGED << fsVars, sessVars, args, roots, error, walkVars, loopVars,
                    mapLog, retrLog, storLog, mkdLog, listLog, decisions,
                    dest0, snaps >>

Next ==
    \/ recursively_copy_files_from_remote_directory
    \/ walk_remote_tree_dequeue
    \/ walk_remote_tree_entry
    \/ walk_remote_tree_return
    \/ copy_from_remote_directory
    \/ copy_from_remote_file
    \/ recursively_copy_files_from_local_directory
    \/ walk_local_tree_dequeue
    \/ walk_local_tree_entry
    \/ walk_local_tree_return
    \/ copy_from_local_directory
    \/ copy_from_local_file
    \/ copy_file_to_remote_directory
    \/ TransportFailure
    \/ CallAgain

Spec == Init /\ [][Next]_vars

\* ================================================================== claims
Range(s) == {s[i] : i \in 1..Len(s)}

Mirror == args.op \in {"r2l", "l2r"}
SourceRoot == IF args.op = "r2l" THEN args.remote_root_directory
              ELSE args.local_root_directory
DestinationRoot == IF args.op = "r2l" THEN args.local_root_directory
                   ELSE args.remote_root_directory
Source == IF args.op = "r2l" THEN remote ELSE local

\* d lies strictly below root
Under(root, d) ==
    /\ Len(d) > Len(root)
    /\ SubSeq(d, 1, Len(root)) = root
    /\ d[Len(root) + 1] = SEP

\* the path of d relative to root, with its leading separator
Relative(root, d) == SubSeq(d, Len(root) + 1, Len(d))

\* some component of d below root starts with a dot
HiddenBelow(root, d) ==
    \E i \in 1..(Len(d) - 1) : i > Len(root) /\ d[i] = SEP /\ d[i + 1] = DOT

\* the directories a walk of the source tree has to produce
WalkTarget ==
    {SourceRoot} \cup
    {d \in Source.dirs : Under(SourceRoot, d) /\
                         (args.op = "r2l" => ~HiddenBelow(SourceRoot, d))}

\* the part of a name after its last dot (the whole name when it has none)
ExtensionOf(name) ==
    CHOOSE e \in {SubSeq(name, k, Len(name)) : k \in 1..(Len(name) + 1)} :
        /\ \A i \in 1..Len(e) : e[i] # DOT
        /\ Len(e) = Len(name) \/ name[Len(name) - Len(e)] = DOT
HasDot(name) == \E i \in 1..Len(name) : name[i] = DOT
Eligible(name) ==
    args.filetype_restrictions = {} \/ ExtensionOf(name) \in args.filetype_restrictions

Retrieved(dec) ==
    \E r \in retrLog : r.run = dec.run /\ r.cwd = dec.dir /\ r.name = dec.name
Uploaded(dec) ==
    \E s \in storLog : s.run = dec.run /\ s.dir = dec.dir /\ s.name = dec.name

\* C1: the walker yields the root first, yields no directory twice, yields
\* each directory after its parent (as parent + separator + name), yields
\* nothing outside the tree below the root and, once its queue is empty and
\* it has ended, has yielded every (non-hidden, for the remote walker)
\* directory below the root.
C1_WalkOrder ==
    Mirror =>
        /\ yielded # << >> => yielded[1] = SourceRoot
        /\ \A i, j \in 1..Len(yielded) : i # j => yielded[i] # yielded[j]
        /\ \A i \in 2..Len(yielded) :
              \E j \in 1..(i - 1) :
                  /\ yielded[j] = Dirname(yielded[i])
                  /\ yielded[i] = yielded[j] \o << SEP >> \o basename(yielded[i])
        /\ Range(yielded) \subseteq WalkTarget
        /\ pc = "done" => (queue = << >> /\ Range(yielded) = WalkTarget)

C1_Witness ==
    /\ args.op = "r2l" /\ pc = "done" /\ run = 1
    /\ PathOf(<< n_s, n_a, n_bc >>) \in Range(yielded)
    /\ PathOf(<< n_s, n_s >>) \in Range(yielded)
    /\ args.remote_root_directory = SrcTop

\* C2: every directory d the source walker yields is mapped to
\* join(destination_root, basename(source_root)) followed by d's path
\* relative to the source root, and nothing is created at the destination
\* outside that nested copy.
C2_DestinationNesting ==
    Mirror =>
        LET nested == DestinationRoot \o << SEP >> \o basename(SourceRoot)
        IN  /\ \A m \in mapLog : m.copy = nested \o Relative(SourceRoot, m.dir)
            /\ \A p \in (Dest.dirs \ dest0.dirs) \cup
                        (DOMAIN Dest.files \ DOMAIN dest0.files) :
                  p = nested \/ Under(nested, p)

\* C3: in local-to-remote mirroring without dry-run, an eligible local file
\* whose name is absent from the mapped remote directory is uploaded whatever
\* the overwrite flag, and one present there is uploaded exactly when
\* overwrite is set.
C3_UploadGating ==
    (args.op = "l2r" /\ ~args.dry_run) =>
        \A dec \in decisions :
            (Eligible(dec.name) /\ dec.cwd = dec.copy) =>
                IF dec.present THEN Uploaded(dec) <=> args.overwrite
                ELSE Uploaded(dec)

\* C4: in remote-to-local mirroring, a non-hidden remote file whose target
\* exists is never retrieved and the target keeps its content when overwrite
\* is off; with overwrite on (not dry-run, extension permitted) the file is
\* retrieved whether or not the target exists.
C4_DownloadGating ==
    args.op = "r2l" =>
        \A dec \in decisions :
            /\ (dec.existed /\ ~args.overwrite) =>
                  /\ ~Retrieved(dec)
                  /\ dec.before # << >> =>
                        /\ dec.target \in DOMAIN local.files
                        /\ local.files[dec.target] = dec.before[1]
            /\ (args.overwrite /\ ~args.dry_run /\ Eligible(dec.name)
                  /\ (HasDot(dec.name) \/ args.filetype_restrictions = {})) =>
                  Retrieved(dec)

C4_Witness ==
    /\ args.op = "r2l" /\ ~args.overwrite /\ ~args.dry_run /\ pc = "done"
    /\ \E dec \in decisions :
          dec.existed /\ dec.before = << OldContent >> /\ dec.run = 1
    /\ retrLog # {}

\* C5: with dry_run the destination never changes: no directory is made, no
\* file written, no RETR, STOR or MKD issued; and in local-to-remote dry-run
\* the first visited directory whose mapped remote directory is missing ends
\* the call with NotImplementedError, no further directory being yielded.
C5_DryRun ==
    (Mirror /\ args.dry_run) =>
        /\ Dest = dest0
        /\ retrLog = {} /\ storLog = {} /\ mkdLog = {}
        /\ args.op = "l2r" =>
              \A m \in mapLog :
                  m.copy \notin dest0.dirs =>
                      /\ pc = "aborted"
                      /\ error = "NotImplementedError"
                      /\ yielded[Len(yielded)] = m.dir

C5_Witness ==
    /\ args.op = "l2r" /\ args.dry_run
    /\ pc = "aborted" /\ error = "NotImplementedError"
    /\ Len(yielded) >= 2

C7_Idempotent ==
    (args.op = "r2l" /\ ~args.overwrite /\ run >= 2) =>
        /\ \A r2 \in retrLog :
              r2.run = run =>
                  ~\E r1 \in retrLog : r1.run = run - 1 /\ r1.target = r2.target
        /\ pc = "done" => snaps[run] = snaps[run - 1]

C7_Witness ==
    /\ args.op = "r2l" /\ ~args.overwrite /\ ~args.dry_run
    /\ run = 2 /\ pc = "done"
    /\ Cardinality({r \in retrLog : r.run = 1}) >= 2

\* C8: the remote walker never yields or descends into a directory with a
\* dot-named component below the root; the local walker yields and descends
\* into dot-named directories like any other.
C8_HiddenAsymmetry ==
    /\ args.op = "r2l" =>
          /\ \A i \in 1..Len(yielded) : ~HiddenBelow(SourceRoot, yielded[i])
          /\ current_directory # NoPath => ~HiddenBelow(SourceRoot, current_directory)
    /\ (args.op = "l2r" /\ pc = "done") =>
          \A d \in local.dirs :
              (Under(SourceRoot, d) /\ HiddenBelow(SourceRoot, d)) => d \in Range(yielded)

C8_Witness ==
    /\ args.op = "r2l" /\ pc = "done"
    /\ PathOf(<< n_s, n_g, n_a >>) \in remote.dirs
    /\ args.remote_root_directory = SrcTop

\* C9: once an operation has returned or raised, the session it used is closed.
C9_SessionClosed ==
    pc \in {"done", "aborted"} => ~ftp.open

\* C10: in local-to-remote mirroring without dry-run, the listing consulted
\* for a local directory is that of its mapped remote directory and every
\* STOR for one of its files is issued with the session inside that mapped
\* directory, whether it existed or was created in this call.
C10_UploadDirectory ==
    (args.op = "l2r" /\ ~args.dry_run) =>
        /\ \A l \in listLog : l.listed = l.copy
        /\ \A s \in storLog : s.cwd = s.copy

====
